---------------------------- MODULE Spec2Model ----------------------------
(***************************************************************************)
(* parse_cbf of parse_cbf.py: the decoder of a Foxwell CBF log.  The       *)
(* buffer is a sequence of byte values, the cursor fp is 0-based as in the *)
(* source, and one step of the model is one iteration of the loop the      *)
(* decoder is in (one whole data line for the record loop).  An index      *)
(* outside the buffer raises IndexError in the source: the decoder stops   *)
(* where it is, with fault set, and returns nothing.                       *)
(***************************************************************************)
EXTENDS Integers, Sequences, FiniteSets, TLC

VARIABLES
    input,            \* the description of the file handed to the decoder
    cbf,              \* the byte buffer
    fp,               \* the cursor (0-based)
    ft,               \* the text being accumulated
    headings, header, data, errors,
    num_fields, fn, nz,
    read_records, expected_records,
    pc,               \* the stage the decoder is in
    fault             \* TRUE once an index outside the buffer was read

vars == <<input, cbf, fp, ft, headings, header, data, errors, num_fields,
          fn, nz, read_records, expected_records, pc, fault>>

-----------------------------------------------------------------------------
(* Bounds of the input family *)
MaxFields == 2
MaxVals == 3
MaxCount == 2
MaxSpin == 3

(* Byte values of the format *)
NUL == 0
SOF == 6
CTRL == 31
SP == 32
DEG == 176
EOF1 == 170
EOF2 == 85
EOF3 == 51
EOF4 == 17
HSKIP == 9
FSKIP == 10
NOTRAILER == -1

DegText == <<100, 101, 103, 32>>

-----------------------------------------------------------------------------
(* The decoder's state as one value, and the steps as functions on it *)

St == [cbf |-> cbf, fp |-> fp, ft |-> ft, headings |-> headings,
       header |-> header, data |-> data, errors |-> errors,
       num_fields |-> num_fields, fn |-> fn, nz |-> nz,
       read_records |-> read_records, expected_records |-> expected_records,
       pc |-> pc, fault |-> fault]

Set(s) ==
    /\ cbf' = s.cbf
    /\ fp' = s.fp
    /\ ft' = s.ft
    /\ headings' = s.headings
    /\ header' = s.header
    /\ data' = s.data
    /\ errors' = s.errors
    /\ num_fields' = s.num_fields
    /\ fn' = s.fn
    /\ nz' = s.nz
    /\ read_records' = s.read_records
    /\ expected_records' = s.expected_records
    /\ pc' = s.pc
    /\ fault' = s.fault
    /\ UNCHANGED input

Start(buf) ==
    [cbf |-> buf, fp |-> 0, ft |-> <<>>, headings |-> <<>>, header |-> <<>>,
     data |-> <<>>, errors |-> <<>>, num_fields |-> 0, fn |-> 0, nz |-> 0,
     read_records |-> 0, expected_records |-> NOTRAILER,
     pc |-> "heading1", fault |-> FALSE]

flen(s) == Len(s.cbf)

At(buf, i) == buf[i + 1]

Cur(s) == At(s.cbf, s.fp)

Running(s, stage) == s.pc = stage /\ ~s.fault

IndexError(s) == [s EXCEPT !.fault = TRUE]

EndOfFile(stage) == [kind |-> "eof", stage |-> stage]

CountMismatch(read, expected) ==
    [kind |-> "count", read |-> read, expected |-> expected]

(* One iteration of a heading scan: the byte joins the heading, and the    *)
(* scan returns the end-of-file error when the buffer ends there.          *)
HeadingChar(s, stage) ==
    IF s.fp + 1 >= flen(s)
    THEN [s EXCEPT !.ft = Append(s.ft, Cur(s)), !.fp = s.fp + 1,
                   !.errors = Append(s.errors, EndOfFile(stage)),
                   !.pc = "done"]
    ELSE [s EXCEPT !.ft = Append(s.ft, Cur(s)), !.fp = s.fp + 1]

(* The terminator of a heading: the heading is kept, the cursor moves on   *)
HeadingEnd(s, skip, next) ==
    [s EXCEPT !.headings = Append(s.headings, s.ft), !.ft = <<>>,
              !.fp = s.fp + skip, !.pc = next]

Heading1FaultCond(s) == Running(s, "heading1") /\ s.fp >= flen(s)
Heading1CharCond(s) == Running(s, "heading1") /\ s.fp < flen(s) /\ Cur(s) # NUL
Heading1EndCond(s) == Running(s, "heading1") /\ s.fp < flen(s) /\ Cur(s) = NUL
Heading1CharStep(s) == HeadingChar(s, "heading 1")
Heading1EndStep(s) == HeadingEnd(s, 1, "heading2")

Heading2FaultCond(s) == Running(s, "heading2") /\ s.fp >= flen(s)
Heading2CharCond(s) == Running(s, "heading2") /\ s.fp < flen(s) /\ Cur(s) # NUL
Heading2EndCond(s) == Running(s, "heading2") /\ s.fp < flen(s) /\ Cur(s) = NUL
Heading2CharStep(s) == HeadingChar(s, "heading 2")
Heading2EndStepLong(s) == HeadingEnd(s, HSKIP + 1, "heading3")
Heading2EndStep(s) == HeadingEnd(s, HSKIP, "heading3")

Heading3FaultCond(s) == Running(s, "heading3") /\ s.fp >= flen(s)
Heading3CharCond(s) == Running(s, "heading3") /\ s.fp < flen(s) /\ Cur(s) # NUL
Heading3EndCond(s) == Running(s, "heading3") /\ s.fp < flen(s) /\ Cur(s) = NUL
Heading3CharStep(s) == HeadingChar(s, "heading 3")
Heading3EndStep(s) ==
    [s EXCEPT !.headings = Append(s.headings, s.ft), !.fp = s.fp + 1,
              !.pc = "fieldcount"]

(* The field count: two bytes, least significant first *)
LE16(buf, i) == At(buf, i) + 256 * At(buf, i + 1)

FieldCountFaultCond(s) == Running(s, "fieldcount") /\ s.fp + 1 >= flen(s)
FieldCountCond(s) == Running(s, "fieldcount") /\ s.fp + 1 < flen(s)
FieldCountStep(s) ==
    [s EXCEPT !.num_fields = LE16(s.cbf, s.fp), !.fp = s.fp + 2,
              !.fn = 0, !.ft = <<>>, !.nz = 0, !.pc = "header"]

(* The field names: ft.replace("\xb0","deg ").rstrip(' ') *)
ReplaceDegNone(t) == t
RECURSIVE ReplaceDeg(_)
ReplaceDeg(t) ==
    IF t = <<>> THEN <<>>
    ELSE IF Head(t) = DEG THEN DegText \o ReplaceDeg(Tail(t))
    ELSE <<Head(t)>> \o ReplaceDeg(Tail(t))

RStripNone(t) == t
RECURSIVE RStrip(_)
RStrip(t) ==
    IF t # <<>> /\ t[Len(t)] = SP THEN RStrip(SubSeq(t, 1, Len(t) - 1))
    ELSE t

FieldName(t) == RStrip(ReplaceDeg(t))

HeaderMoreOffByOne(n, nf) == n < nf - 1
HeaderMore(n, nf) == n < nf

InHeader(s) == Running(s, "header") /\ HeaderMore(s.fn, s.num_fields)

HeaderEofCond(s) == InHeader(s) /\ s.fp >= flen(s)
HeaderBreakCond(s) ==
    InHeader(s) /\ s.fp < flen(s) /\ Cur(s) = NUL /\ s.nz > 0
HeaderMarkerCond(s) == InHeader(s) /\ s.fp < flen(s) /\ Cur(s) = SOF
HeaderCharCond(s) ==
    InHeader(s) /\ s.fp < flen(s) /\ Cur(s) # SOF /\ Cur(s) # NUL
HeaderZeroCond(s) ==
    InHeader(s) /\ s.fp < flen(s) /\ Cur(s) = NUL /\ s.nz = 0
HeaderExitCond(s) == Running(s, "header") /\ ~HeaderMore(s.fn, s.num_fields)

(* After the field table loop: return on an error, else start the record  *)
(* loop.                                                                   *)
AfterHeader(s) ==
    IF Len(s.errors) > 0 THEN [s EXCEPT !.pc = "done"]
    ELSE [s EXCEPT !.read_records = 0, !.expected_records = NOTRAILER,
                   !.pc = "data"]

(* The buffer ended inside the field table: the error and the break *)
HeaderEofStep(s) ==
    AfterHeader([s EXCEPT !.errors = Append(s.errors, EndOfFile("header"))])

HeaderBreakStep(s) ==
    LET name == FieldName(s.ft) IN
    IF Len(name) > 0
    THEN [s EXCEPT !.header = Append(s.header, name), !.fn = s.fn + 1,
                   !.fp = s.fp + 1, !.ft = <<>>, !.nz = 0]
    ELSE [s EXCEPT !.fp = s.fp + 1, !.ft = <<>>, !.nz = 0]

HeaderMarkerStepShort(s) == [s EXCEPT !.fp = s.fp + FSKIP - 1]
HeaderMarkerStep(s) == [s EXCEPT !.fp = s.fp + FSKIP]

HeaderCharStep(s) ==
    IF Cur(s) > CTRL
    THEN [s EXCEPT !.ft = Append(s.ft, Cur(s)), !.fp = s.fp + 1]
    ELSE [s EXCEPT !.fp = s.fp + 1]

HeaderZeroStep(s) ==
    IF Len(s.ft) > 0
    THEN [s EXCEPT !.nz = s.nz + 1, !.ft = Append(s.ft, SP), !.fp = s.fp + 1]
    ELSE [s EXCEPT !.nz = s.nz + 1, !.fp = s.fp + 1]

(* The field table is complete *)
HeaderExitStep(s) == AfterHeader(s)

(* One data line: the inner loop of the record loop *)
RECURSIVE DataLine(_, _, _, _, _, _)
DataLine(buf, p, n, t, line, nf) ==
    IF n >= nf THEN [fp |-> p, fn |-> n, ft |-> t, dataline |-> line, eof |-> FALSE]
    ELSE IF p >= Len(buf)
    THEN [fp |-> p, fn |-> n, ft |-> t, dataline |-> line, eof |-> TRUE]
    ELSE IF At(buf, p) = NUL
    THEN DataLine(buf, p + 1, n + 1, <<>>, Append(line, t), nf)
    ELSE DataLine(buf, p + 1, n, Append(t, At(buf, p)), line, nf)

LineComplete(n, nf) == n = nf

(* The end mark is looked for 4 bytes past the cursor, byte by byte, the   *)
(* test stopping at the first byte that differs.                           *)
MarkPrefix(buf, p, k) ==
    \A j \in 0..(k - 1) :
        p + 4 + j < Len(buf) /\ At(buf, p + 4 + j) = <<EOF1, EOF2, EOF3, EOF4>>[j + 1]

LookaheadFault(buf, p) ==
    \E k \in 0..3 : MarkPrefix(buf, p, k) /\ p + 4 + k >= Len(buf)

EofMark(buf, p) == MarkPrefix(buf, p, 4)

LE32(buf, i) ==
    At(buf, i) + 256 * At(buf, i + 1) + 65536 * At(buf, i + 2)
        + 16777216 * At(buf, i + 3)

(* The record loop runs while bytes are left.  With a field count of 0 a   *)
(* record takes no byte and the loop can repeat for ever: it is followed   *)
(* for MaxSpin records.                                                    *)
RecordCond(s) ==
    /\ Running(s, "data")
    /\ s.fp < flen(s)
    /\ (s.num_fields > 0 \/ s.read_records < MaxSpin)

DataExitCond(s) == Running(s, "data") /\ s.fp >= flen(s)

RecordStep(s) ==
    LET l == DataLine(s.cbf, s.fp, 0, <<>>, <<>>, s.num_fields)
        r == [s EXCEPT !.fp = l.fp, !.fn = l.fn, !.ft = l.ft]
        e == IF l.eof
             THEN [r EXCEPT !.errors = Append(s.errors, EndOfFile("data"))]
             ELSE r
    IN  IF LineComplete(l.fn, s.num_fields)
        THEN LET a == [e EXCEPT !.data = Append(s.data, l.dataline),
                                !.read_records = s.read_records + 1]
             IN  IF LookaheadFault(s.cbf, l.fp) THEN IndexError(a)
                 ELSE IF EofMark(s.cbf, l.fp)
                 THEN [a EXCEPT !.expected_records = LE32(s.cbf, l.fp),
                                !.pc = "reconcile"]
                 ELSE a
        ELSE e

DataExitStep(s) == [s EXCEPT !.pc = "reconcile"]

ReconcileCond(s) == Running(s, "reconcile")

ReconcileStepAlways(s) ==
    [s EXCEPT !.errors = Append(s.errors,
                  CountMismatch(s.read_records, s.expected_records)),
              !.pc = "done"]
ReconcileStep(s) ==
    IF s.read_records # s.expected_records
    THEN [s EXCEPT !.errors = Append(s.errors,
                       CountMismatch(s.read_records, s.expected_records)),
                   !.pc = "done"]
    ELSE [s EXCEPT !.pc = "done"]

-----------------------------------------------------------------------------
(* The decoder as a function of the buffer: the steps, run to the end *)

Stopped(s) ==
    \/ s.fault
    \/ s.pc = "done"
    \/ (s.pc = "data" /\ ~RecordCond(s) /\ ~DataExitCond(s))

Step(s) ==
    CASE Heading1FaultCond(s) \/ Heading2FaultCond(s) \/ Heading3FaultCond(s)
             \/ FieldCountFaultCond(s) -> IndexError(s)
      [] Heading1CharCond(s) -> Heading1CharStep(s)
      [] Heading1EndCond(s) -> Heading1EndStep(s)
      [] Heading2CharCond(s) -> Heading2CharStep(s)
      [] Heading2EndCond(s) -> Heading2EndStep(s)
      [] Heading3CharCond(s) -> Heading3CharStep(s)
      [] Heading3EndCond(s) -> Heading3EndStep(s)
      [] FieldCountCond(s) -> FieldCountStep(s)
      [] HeaderEofCond(s) -> HeaderEofStep(s)
      [] HeaderBreakCond(s) -> HeaderBreakStep(s)
      [] HeaderMarkerCond(s) -> HeaderMarkerStep(s)
      [] HeaderCharCond(s) -> HeaderCharStep(s)
      [] HeaderZeroCond(s) -> HeaderZeroStep(s)
      [] HeaderExitCond(s) -> HeaderExitStep(s)
      [] RecordCond(s) -> RecordStep(s)
      [] DataExitCond(s) -> DataExitStep(s)
      [] ReconcileCond(s) -> ReconcileStep(s)

RECURSIVE Run(_)
Run(s) == IF Stopped(s) THEN s ELSE Run(Step(s))

parse_cbf(buf) == Run(Start(buf))

Returned(s) == s.pc = "done" /\ ~s.fault

Result(s) == <<s.headings, s.header, s.data, s.errors>>

-----------------------------------------------------------------------------
(* The files handed to the decoder: a file laid out as the format says,    *)
(* with or without its trailer, cut at any length; pad is the number of    *)
(* extra zero bytes between heading 2's terminator and the 8-byte marker.  *)

OPAQUE == <<123, 20, 142, 63, 0, 0, 0, 0>>
OPAQUE2 == <<1, 2, 3, 4, 5, 6, 7, 8>>
CRLF == <<13, 10>>
EofMarkBytes == <<EOF1, EOF2, EOF3, EOF4>>

BlockX == <<88, NUL, NUL>>
BlockUnit == <<82, NUL, 114, NUL>>
BlockTemp == <<84, 101, 109, 112, DEG, NUL, NUL>>
MarkerZ == <<SOF, 1, NUL, NUL, NUL, NUL, NUL, NUL, NUL, NUL>>
MarkerA == <<SOF, 2, 65, 65, 65, 65, 65, 65, 65, NUL>>
BlockMarked == MarkerZ \o BlockX
FieldBlocks == {BlockUnit, BlockTemp, BlockMarked}
MarkerBlocks == {MarkerZ, MarkerA}

(* The values of a data table: "5" and the empty value in turn *)
ValueAt(i) == IF i % 2 = 1 THEN <<53>> ELSE <<>>
RowValues(n) == [i \in 1..n |-> ValueAt(i)]

SeqsUpTo(S, n) == UNION {[1..k -> S] : k \in 0..n}

RECURSIVE Flatten(_)
Flatten(ss) == IF ss = <<>> THEN <<>> ELSE Head(ss) \o Flatten(Tail(ss))

Terminated(ss) == [i \in DOMAIN ss |-> Append(ss[i], NUL)]

Zeros(n) == [i \in 1..n |-> NUL]

Count32(c) == <<c % 256, (c \div 256) % 256, (c \div 65536) % 256,
                (c \div 16777216) % 256>>

Trailer(f) ==
    IF f.count = NOTRAILER THEN <<>>
    ELSE Count32(f.count) \o EofMarkBytes \o (IF f.crlf THEN CRLF ELSE <<>>)

Top(f) ==
    Append(f.h1, NUL) \o Append(f.h2, NUL) \o Zeros(f.pad) \o f.op
        \o Append(f.h3, NUL)
        \o <<Len(f.fields) % 256, Len(f.fields) \div 256>>

Table(f) == Flatten(f.fields)

Rows(f) == Flatten(Terminated(f.vals))

Encode(f) == Top(f) \o Table(f) \o Rows(f) \o Trailer(f)

Prefix(buf, n) == SubSeq(buf, 1, n)

Layouts ==
    [h1 : {<<65>>}, h2 : {<<66>>}, pad : {0}, op : {OPAQUE}, h3 : {<<67>>},
     fields : SeqsUpTo(FieldBlocks, MaxFields),
     vals : {RowValues(n) : n \in 0..MaxVals},
     count : {NOTRAILER} \cup 0..MaxCount, crlf : {FALSE}]
    \cup
    [h1 : {<<65>>}, h2 : {<<66>>, <<>>}, pad : {0, 1}, op : {OPAQUE, OPAQUE2},
     h3 : {<<67>>, <<>>},
     fields : {<<BlockX>>}, vals : {RowValues(1)},
     count : {1}, crlf : BOOLEAN]

-----------------------------------------------------------------------------
Init ==
    /\ \E f \in Layouts :
           \E c \in 0..Len(Encode(f)) :
               /\ input = [file |-> f, cut |-> c]
               /\ cbf = Prefix(Encode(f), c)
    /\ fp = 0
    /\ ft = <<>>
    /\ headings = <<>>
    /\ header = <<>>
    /\ data = <<>>
    /\ errors = <<>>
    /\ num_fields = 0
    /\ fn = 0
    /\ nz = 0
    /\ read_records = 0
    /\ expected_records = NOTRAILER
    /\ pc = "heading1"
    /\ fault = FALSE

Heading1Fault == Heading1FaultCond(St) /\ Set(IndexError(St))
Heading1Char == Heading1CharCond(St) /\ Set(Heading1CharStep(St))
Heading1End == Heading1EndCond(St) /\ Set(Heading1EndStep(St))
Heading2Fault == Heading2FaultCond(St) /\ Set(IndexError(St))
Heading2Char == Heading2CharCond(St) /\ Set(Heading2CharStep(St))
Heading2End == Heading2EndCond(St) /\ Set(Heading2EndStep(St))
Heading3Fault == Heading3FaultCond(St) /\ Set(IndexError(St))
Heading3Char == Heading3CharCond(St) /\ Set(Heading3CharStep(St))
Heading3End == Heading3EndCond(St) /\ Set(Heading3EndStep(St))
FieldCountFault == FieldCountFaultCond(St) /\ Set(IndexError(St))
FieldCount == FieldCountCond(St) /\ Set(FieldCountStep(St))
HeaderEof == HeaderEofCond(St) /\ Set(HeaderEofStep(St))
HeaderBreak == HeaderBreakCond(St) /\ Set(HeaderBreakStep(St))
HeaderMarker == HeaderMarkerCond(St) /\ Set(HeaderMarkerStep(St))
HeaderChar == HeaderCharCond(St) /\ Set(HeaderCharStep(St))
HeaderZero == HeaderZeroCond(St) /\ Set(HeaderZeroStep(St))
HeaderExit == HeaderExitCond(St) /\ Set(HeaderExitStep(St))
Record == RecordCond(St) /\ Set(RecordStep(St))
DataExit == DataExitCond(St) /\ Set(DataExitStep(St))
Reconcile == ReconcileCond(St) /\ Set(ReconcileStep(St))

Next ==
    \/ Heading1Fault \/ Heading1Char \/ Heading1End
    \/ Heading2Fault \/ Heading2Char \/ Heading2End
    \/ Heading3Fault \/ Heading3Char \/ Heading3End
    \/ FieldCountFault \/ FieldCount
    \/ HeaderEof \/ HeaderBreak \/ HeaderMarker \/ HeaderChar
    \/ HeaderZero \/ HeaderExit
    \/ Record \/ DataExit \/ Reconcile

Spec == Init /\ [][Next]_vars

TypeOK == pc \in {"heading1", "heading2", "heading3", "fieldcount", "header",
                  "data", "reconcile", "done"}

-----------------------------------------------------------------------------
(* What the properties speak of *)


Ended == pc = "done" \/ fault
EofErrors == {i \in 1..Len(errors) : errors[i].kind = "eof"}
CountErrors == {i \in 1..Len(errors) : errors[i].kind = "count"}
HasError(e) == \E i \in 1..Len(errors) : errors[i] = e

WellFormed(f) ==
    /\ f.pad = 0
    /\ Len(f.fields) >= 1
    /\ Len(f.vals) % Len(f.fields) = 0

EndHeading1(f) == Len(f.h1) + 1
EndHeading2(f) == EndHeading1(f) + Len(f.h2) + 1
EndHeading3(f) == EndHeading2(f) + f.pad + Len(f.op) + Len(f.h3) + 1
EndTable(f) == Len(Top(f)) + Len(Table(f))
EndRows(f) == EndTable(f) + Len(Rows(f))

StageOfCut(f, c) ==
    IF c < EndHeading1(f) THEN "heading 1"
    ELSE IF c < EndHeading2(f) THEN "heading 2"
    ELSE IF c < EndHeading3(f) THEN "heading 3"
    ELSE IF c < EndTable(f) THEN "header"
    ELSE "data"

FieldStart(f, k) == Len(Top(f)) + Len(Flatten(SubSeq(f.fields, 1, k - 1)))

Insert(buf, p, m) == SubSeq(buf, 1, p) \o m \o SubSeq(buf, p + 1, Len(buf))

TempDeg == <<84, 101, 109, 112, 100, 101, 103>>
TempSpDeg == <<84, 101, 109, 112, 32, 100, 101, 103>>

-----------------------------------------------------------------------------
(* C1: when parse_cbf returns, every record of the record list has as many *)
(* values as the field list has entries.                                   *)
C1_RecordArity ==
    Returned(St) => \A i \in 1..Len(data) : Len(data[i]) = Len(header)

C1_Witness ==
    /\ Returned(St)
    /\ Len(header) = 2
    /\ Len(data) >= 1
    /\ HasError(EndOfFile("data"))

(* C2: parse_cbf never reads an index outside the buffer *)
C2_NeverFaults == ~fault

(* C3: a well-formed file cut before the end of its data decodes to        *)
(* exactly one end-of-file error, tagged with the stage of the cut, with   *)
(* no partial field name and no short record.                              *)
C3_Truncation ==
    (WellFormed(input.file) /\ input.cut < EndRows(input.file) /\ Ended) =>
        /\ Returned(St)
        /\ Cardinality(EofErrors) = 1
        /\ HasError(EndOfFile(StageOfCut(input.file, input.cut)))
        /\ \A k \in 1..Len(header) :
               FieldStart(input.file, k + 1) <= input.cut
        /\ \A i \in 1..Len(data) : Len(data[i]) = Len(input.file.fields)

(* C4: when the record loop ended at a trailer, the records read are all   *)
(* returned; there is no count error and as many records as the trailer    *)
(* says when the counts agree, and exactly one count error, carrying both  *)
(* counts, when they differ.                                               *)
C4_TrailerReconciled ==
    (Returned(St) /\ expected_records # NOTRAILER) =>
        /\ expected_records = input.file.count
        /\ Len(data) = read_records
        /\ (read_records = expected_records =>
               CountErrors = {} /\ Len(data) = input.file.count)
        /\ (read_records # expected_records =>
               /\ Cardinality(CountErrors) = 1
               /\ HasError(CountMismatch(read_records, input.file.count)))

C4_Witness ==
    /\ Returned(St)
    /\ expected_records # NOTRAILER
    /\ read_records = expected_records
    /\ Len(data) = 2
    /\ errors = <<>>

(* C5: the scenario file, with one zero byte between heading 2's           *)
(* terminator and the 8-byte marker, decodes to headings A, B, C, the      *)
(* field X, the record 5 and no error.                                     *)
ScenarioRest == <<67, 0, 1, 0, 88, 0, 0, 53, 0, 1, 0, 0, 0, 170, 85, 51, 17>>
ScenarioResult == << <<<<65>>, <<66>>, <<67>>>>, <<<<88>>>>, <<<<<<53>>>>>>, <<>> >>

C5_Scenario ==
    (\E op \in {OPAQUE, OPAQUE2} :
         cbf = <<65, 0, 66, 0, 0>> \o op \o ScenarioRest) =>
        (Ended => Returned(St) /\ Result(St) = ScenarioResult)

(* C5 as amended: the same file without the extra zero byte, the 8-byte    *)
(* marker directly after heading 2's terminator, decodes to headings       *)
(* A, B, C, the field X, the record 5 and no error.                        *)
C5_ScenarioAmended ==
    (\E op \in {OPAQUE, OPAQUE2} :
         cbf = <<65, 0, 66, 0>> \o op \o ScenarioRest) =>
        /\ ~fault
        /\ (pc = "done" => Result(St) = ScenarioResult)

C5_Witness ==
    /\ cbf = <<65, 0, 66, 0>> \o OPAQUE2 \o ScenarioRest
    /\ Returned(St)
    /\ Result(St) = ScenarioResult

(* C6: the field whose raw bytes are T e m p B0 00 00 gets the name        *)
(* "Temp deg".                                                             *)
C6_TempSpaceDeg ==
    \A k \in 1..Len(header) :
        (input.file.pad = 0 /\ k <= Len(input.file.fields)
            /\ input.file.fields[k] = BlockTemp) => header[k] = TempSpDeg

(* C6 as amended: the field whose raw bytes are T e m p B0 00 00 gets the  *)
(* name "Tempdeg": B0 becomes "deg " with nothing put before it, and the   *)
(* trailing spaces are stripped.                                           *)
C6_TempDeg ==
    \A k \in 1..Len(header) :
        (input.file.pad = 0 /\ k <= Len(input.file.fields)
            /\ input.file.fields[k] = BlockTemp) => header[k] = TempDeg

C6_Witness ==
    /\ Returned(St)
    /\ errors = <<>>
    /\ Len(header) = 2
    /\ input.file.fields[2] = BlockTemp
    /\ header[2] = TempDeg

(* C7: when a completed record is followed by fewer than 8 bytes and no    *)
(* trailer was found, parse_cbf still returns, with the records read and   *)
(* a count error of expected -1 and the number of records read.            *)
C7_EndAfterRecord ==
    /\ (pc = "data" /\ read_records >= 1 /\ errors = <<>>
            /\ Len(cbf) - fp < 8) => ~fault
    /\ (Returned(St) /\ Len(headings) = 3 /\ Len(header) = num_fields
            /\ read_records >= 1 /\ expected_records = NOTRAILER) =>
           /\ Len(data) = read_records
           /\ HasError(CountMismatch(Len(data), NOTRAILER))

(* C8: the cursor strictly advances on every iteration of the record loop  *)
C8_CursorAdvances ==
    [][(pc = "data" /\ ~fault /\ fp < Len(cbf) /\ pc' = "data" /\ ~fault')
           => fp' > fp]_vars

(* C9: when parse_cbf returns after the field count, either the field list *)
(* has field_count entries, none empty and none ending in a space, or it   *)
(* has fewer, the field-table end-of-file error is reported and there is   *)
(* no record; never both.                                                  *)
C9_TableComplete ==
    /\ Len(header) = num_fields
    /\ \A i \in 1..Len(header) :
           header[i] # <<>> /\ header[i][Len(header[i])] # SP

C9_TableCut ==
    /\ Len(header) < num_fields
    /\ HasError(EndOfFile("header"))
    /\ data = <<>>

C9_FieldTable ==
    (Returned(St) /\ Len(headings) = 3) =>
        /\ (C9_TableComplete \/ C9_TableCut)
        /\ ~(C9_TableComplete /\ C9_TableCut)

C9_Witness ==
    /\ Returned(St)
    /\ Len(headings) = 3
    /\ Len(header) = 2
    /\ C9_TableComplete
    /\ Len(data) >= 1

(* C10: a file that decodes without error decodes to the same headings,    *)
(* fields, records and errors after a 10-byte block starting with 06 is    *)
(* put before the first byte of any of its field definitions.              *)
C10_MarkerTransparent ==
    (Returned(St) /\ errors = <<>> /\ input.file.pad = 0) =>
        \A k \in 1..Len(input.file.fields) : \A m \in MarkerBlocks :
            LET q == parse_cbf(Insert(cbf, FieldStart(input.file, k), m))
            IN  Returned(q) /\ Result(q) = Result(St)

C10_Witness ==
    /\ Returned(St)
    /\ errors = <<>>
    /\ input.file.pad = 0
    /\ Len(input.file.fields) = 2
    /\ Len(data) = 1
    /\ LET q == parse_cbf(Insert(cbf, FieldStart(input.file, 2), MarkerZ))
       IN  Returned(q) /\ Result(q) = Result(St) /\ Len(q.cbf) = Len(cbf) + 10

=============================================================================
